---- MODULE Spec2Model ----
(***************************************************************************)
(* Stream reconciliation of the chat page (client/app/page.tsx) over the   *)
(* zustand chat store (stores/chat-store.ts).                              *)
(*                                                                         *)
(* A turn is one run of ChatPage.handleSend.  Its atomic steps are the     *)
(* pieces of code between two suspension points: the read of the next      *)
(* chunk of the `for await` loop and the 50 ms pacing delay of the         *)
(* thinking branch.  Texts are sequences of one-character strings.         *)
(***************************************************************************)
EXTENDS Integers, Sequences, FiniteSets, TLC

\* ---------------------------------------------------------------- bounds
MaxTurns == 2
MaxFrames == 2
MaxUpdates == 1

Turns == 1..MaxTurns

\* ----------------------------------------------------------------- texts
\* reasoning texts: no terminator; ending on a terminator; starting with a
\* terminator; text after the last terminator; two sentences; terminators only
ThinkTexts == {<<>>, <<"a">>, <<"a", ".">>, <<".", "a", ".">>, <<"a", ".", "b">>,
               <<"a", ".", "b", "!">>, <<"?">>}
ChunkTexts == {<<>>, <<"a">>, <<"b">>}
UserTexts == {<<"q">>}
TypedTexts == {<<>>, <<" ">>, <<"q">>, <<" ", "q">>, <<"q", " ">>}

IsPrefix(p, s) == Len(p) <= Len(s) /\ SubSeq(s, 1, Len(p)) = p

\* -------------------------------------------------------- error messages
NoError == [set |-> FALSE, msg |-> <<>>]
Err(m) == [set |-> TRUE, msg |-> m]
UnknownError == <<"Unknown error">>
FailedToSend == <<"Failed to send message">>
TransportMsgs == {<<"net">>}
ThrownMsgs == {<<"exc">>, FailedToSend}

\* ---------------------------------------------------------------- frames
Frames ==
    {[type |-> "thinking", thinking_content |-> T, chunk |-> <<>>, done |-> d] :
        T \in ThinkTexts, d \in BOOLEAN}
    \cup
    {[type |-> ty, thinking_content |-> <<>>, chunk |-> c, done |-> d] :
        ty \in {"content", "error"}, c \in ChunkTexts, d \in BOOLEAN}
    \cup
    {[type |-> ty, thinking_content |-> <<>>, chunk |-> <<>>, done |-> d] :
        ty \in {"finish", "other"}, d \in BOOLEAN}

\* -------------------------------------------- sentence segmentation regex
\* fullThinking.match(/[^.!?]+[.!?]+/g) || [fullThinking]
IsTerminator(c) == c \in {".", "!", "?"}

RECURSIVE RunEnd(_, _, _)
\* index of the last character of the maximal run, starting at i, of
\* characters whose IsTerminator value is term (i - 1 when the run is empty)
RunEnd(s, i, term) ==
    IF i > Len(s) \/ IsTerminator(s[i]) # term THEN i - 1
    ELSE RunEnd(s, i + 1, term)

RECURSIVE MatchAll(_, _)
MatchAll(s, i) ==
    IF i > Len(s) THEN <<>>
    ELSE IF IsTerminator(s[i]) THEN MatchAll(s, i + 1)
    ELSE LET j == RunEnd(s, i, FALSE)
             k == RunEnd(s, j + 1, TRUE)
         IN  IF k = j THEN <<>>
             ELSE <<SubSeq(s, i, k)>> \o MatchAll(s, k + 1)

Sentences(fullThinking) ==
    LET m == MatchAll(fullThinking, 1)
    IN  IF m = <<>> THEN <<fullThinking>> ELSE m

\* ----------------------------------------------------------------- state
VARIABLES
    messages,              \* store: messages
    isStreaming,           \* store: isStreaming
    error,                 \* store: error
    isThinkingStreaming,   \* ChatPage useState
    isContentStreaming,    \* ChatPage useState
    nextTurn,              \* number of the next handleSend call
    pc,                    \* per turn: "idle", "read", "pace", "done"
    accumulatedThinking,   \* per turn local
    accumulatedContent,    \* per turn local
    fullThinking,          \* per turn local of the thinking branch
    currentText,           \* per turn local of the thinking branch
    sentences,             \* per turn: sentences the pacing loop has not reached
    streamOpen,            \* per turn: the chunk sequence has not terminated
    nFrames,               \* chunks the streams have delivered so far
    received,              \* history: concatenation of the chunk of every content frame
    shownContent,          \* history: content values the turn's message has shown
    shownThinking,         \* history: thinking values the turn's message has shown
    stale,                 \* history: the store was cleared while the turn was in flight
    settingsObjects,       \* the settings objects created so far, by reference
    settings,              \* store: settings (a reference into settingsObjects)
    streamSettings,        \* per turn: the settings argument streamChat was called with
    openedWith,            \* history: the value of that argument at the call
    inputMessage           \* MessageInput useState: message, the typed text

storeVars == <<messages, isStreaming, error>>
pageVars == <<isThinkingStreaming, isContentStreaming>>
localVars == <<pc, accumulatedThinking, accumulatedContent, fullThinking, currentText,
               sentences, streamOpen>>
historyVars == <<received, shownContent, shownThinking, stale>>
settingsVars == <<settingsObjects, settings, streamSettings, openedWith>>
inputVars == <<inputMessage>>
vars == <<messages, isStreaming, error, isThinkingStreaming, isContentStreaming, nextTurn,
          pc, accumulatedThinking, accumulatedContent, fullThinking, currentText,
          sentences, streamOpen, nFrames,
          received, shownContent, shownThinking, stale,
          settingsObjects, settings, streamSettings, openedWith, inputMessage>>

InFlight(t) == pc[t] \in {"read", "pace"}

\* -------------------------------------------------------------- settings
defaultSettings ==
    [temperature |-> 7, maxTokens |-> 32768, enableThinking |-> TRUE, systemPrompt |-> "default"]

\* values of the copy the settings panel edits
LocalSettings ==
    {defaultSettings,
     [temperature |-> 10, maxTokens |-> 1024, enableThinking |-> FALSE,
      systemPrompt |-> "default"]}

NoSettings == 0

\* { ...old, ...updates }
Spread(old, updates) ==
    [f \in DOMAIN old \cup DOMAIN updates |->
        IF f \in DOMAIN updates THEN updates[f] ELSE old[f]]

updateSettingsInPlace(objects, ref, updates) ==
    [objects |-> [objects EXCEPT ![ref] = Spread(objects[ref], updates)],
     settings |-> ref]

\* the store replaces its settings object by a new one
updateSettings(objects, ref, updates) ==
    [objects |-> Append(objects, Spread(objects[ref], updates)),
     settings |-> Len(objects) + 1]

\* ----------------------------------------------------------------- store
addMessagePrepend(msgs, message) == <<message>> \o msgs

addMessageReplaceLast(msgs, message) ==
    IF Len(msgs) = 0 THEN <<message>> ELSE [msgs EXCEPT ![Len(msgs)] = message]

addMessage(msgs, message) == Append(msgs, message)

updateLastMessageAll(msgs, updates) ==
    [i \in 1..Len(msgs) |->
        [f \in (DOMAIN msgs[i]) \cup (DOMAIN updates) |->
            IF f \in DOMAIN updates THEN updates[f] ELSE msgs[i][f]]]

updateLastMessageFirst(msgs, updates) ==
    IF Len(msgs) >= 1
    THEN [msgs EXCEPT ![1] =
            [f \in (DOMAIN msgs[1]) \cup (DOMAIN updates) |->
                IF f \in DOMAIN updates THEN updates[f] ELSE msgs[1][f]]]
    ELSE msgs

updateLastMessageReset(msgs, updates) ==
    IF Len(msgs) >= 1
    THEN [msgs EXCEPT ![Len(msgs)] =
            [f \in (DOMAIN msgs[Len(msgs)]) \cup (DOMAIN updates) |->
                IF f \in DOMAIN updates THEN updates[f]
                ELSE IF f \in {"content", "thinking"} THEN <<>>
                ELSE msgs[Len(msgs)][f]]]
    ELSE msgs

updateLastMessage(msgs, updates) ==
    LET lastIndex == Len(msgs)
    IN  IF lastIndex >= 1
        THEN [msgs EXCEPT ![lastIndex] =
                [f \in (DOMAIN msgs[lastIndex]) \cup (DOMAIN updates) |->
                    IF f \in DOMAIN updates THEN updates[f] ELSE msgs[lastIndex][f]]]
        ELSE msgs

\* the assistant placeholder of turn t, looked up by its id
AssistantIndex(msgs, t) ==
    {i \in 1..Len(msgs) : msgs[i].id = [kind |-> "assistant", n |-> t]}
HasAssistant(msgs, t) == AssistantIndex(msgs, t) # {}
AssistantMessage(msgs, t) == msgs[CHOOSE i \in AssistantIndex(msgs, t) : TRUE]

Init ==
    /\ messages = <<>>
    /\ isStreaming = FALSE
    /\ error = NoError
    /\ isThinkingStreaming = FALSE
    /\ isContentStreaming = FALSE
    /\ nextTurn = 1
    /\ pc = [t \in Turns |-> "idle"]
    /\ accumulatedThinking = [t \in Turns |-> <<>>]
    /\ accumulatedContent = [t \in Turns |-> <<>>]
    /\ fullThinking = [t \in Turns |-> <<>>]
    /\ currentText = [t \in Turns |-> <<>>]
    /\ sentences = [t \in Turns |-> <<>>]
    /\ streamOpen = [t \in Turns |-> FALSE]
    /\ nFrames = 0
    /\ received = [t \in Turns |-> <<>>]
    /\ shownContent = [t \in Turns |-> {}]
    /\ shownThinking = [t \in Turns |-> {}]
    /\ stale = [t \in Turns |-> FALSE]
    /\ settingsObjects = <<defaultSettings>>
    /\ settings = 1
    /\ streamSettings = [t \in Turns |-> NoSettings]
    /\ openedWith = [t \in Turns |-> defaultSettings]
    /\ inputMessage = <<>>

\* ------------------------------------------------------- history helpers
\* values the message of every turn of `live` shows once the store holds msgs
ShowContent(msgs, live) ==
    [t \in Turns |->
        IF t \notin live THEN {}
        ELSE IF HasAssistant(msgs, t)
             THEN shownContent[t] \cup {AssistantMessage(msgs, t).content}
             ELSE shownContent[t]]

ShowThinking(msgs, live) ==
    [t \in Turns |->
        IF t \notin live THEN {}
        ELSE IF HasAssistant(msgs, t)
             THEN shownThinking[t] \cup {AssistantMessage(msgs, t).thinking}
             ELSE shownThinking[t]]

Live == {t \in Turns : InFlight(t)}

\* --------------------------------------------------- pieces of handleSend
\* which branch of the if / else-if chain a chunk takes
BranchElseError(chunk) ==
    IF chunk.type = "thinking" /\ chunk.thinking_content # <<>> THEN "thinking"
    ELSE IF chunk.type = "content" /\ chunk.chunk # <<>> THEN "content"
    ELSE IF chunk.type = "finish" \/ chunk.done THEN "finish"
    ELSE "error"

Branch(chunk) ==
    IF chunk.type = "thinking" /\ chunk.thinking_content # <<>> THEN "thinking"
    ELSE IF chunk.type = "content" /\ chunk.chunk # <<>> THEN "content"
    ELSE IF chunk.type = "finish" \/ chunk.done THEN "finish"
    ELSE IF chunk.type = "error" THEN "error"
    ELSE "skip"

AppendChunkOverwrite(accumulated, chunk) == chunk

\* accumulatedContent += chunk.chunk
AppendChunk(accumulated, chunk) == accumulated \o chunk

FinalThinkingCurrent(full, current) == current

\* accumulatedThinking = fullThinking, after the pacing loop
FinalThinking(full, current) == full

FinishUpdatesReset(content, thinking) == [content |-> <<>>, thinking |-> <<>>]

FinishUpdatesSwapped(content, thinking) == [content |-> thinking, thinking |-> content]

\* the object of the final updateLastMessage of the finish branch
FinishUpdates(content, thinking) == [content |-> content, thinking |-> thinking]

\* chunk.chunk || "Unknown error"
ErrorText(chunk) == IF chunk # <<>> THEN chunk ELSE UnknownError

\* the three flags as the finally block leaves them
FinallyFlagsKeepThinking ==
    [isStreaming |-> FALSE, isThinkingStreaming |-> isThinkingStreaming,
     isContentStreaming |-> FALSE]

FinallyFlags ==
    [isStreaming |-> FALSE, isThinkingStreaming |-> FALSE, isContentStreaming |-> FALSE]

FinalizeRetry(t, msgs, err, delivered) ==
    /\ nFrames' = nFrames + delivered
    /\ messages' = msgs
    /\ error' = err
    /\ isStreaming' = FinallyFlags.isStreaming
    /\ isThinkingStreaming' = FinallyFlags.isThinkingStreaming
    /\ isContentStreaming' = FinallyFlags.isContentStreaming
    /\ pc' = [pc EXCEPT ![t] = IF err.set /\ ~streamOpen[t] THEN "read" ELSE "done"]
    /\ accumulatedThinking' = [accumulatedThinking EXCEPT ![t] = <<>>]
    /\ accumulatedContent' = [accumulatedContent EXCEPT ![t] = <<>>]
    /\ fullThinking' = [fullThinking EXCEPT ![t] = <<>>]
    /\ currentText' = [currentText EXCEPT ![t] = <<>>]
    /\ sentences' = [sentences EXCEPT ![t] = <<>>]
    /\ streamOpen' = [streamOpen EXCEPT ![t] = err.set /\ ~streamOpen[t]]
    /\ received' = [received EXCEPT ![t] = <<>>]
    /\ shownContent' = ShowContent(msgs, Live \ {t})
    /\ shownThinking' = ShowThinking(msgs, Live \ {t})
    /\ stale' = [stale EXCEPT ![t] = FALSE]
    /\ UNCHANGED nextTurn

\* the end of handleSend: msgs and err are the store as the branch or the
\* catch block left it, then the finally block runs and the locals of the
\* call go out of scope
Finalize(t, msgs, err, delivered) ==
    /\ nFrames' = nFrames + delivered
    /\ messages' = msgs
    /\ error' = err
    /\ isStreaming' = FinallyFlags.isStreaming
    /\ isThinkingStreaming' = FinallyFlags.isThinkingStreaming
    /\ isContentStreaming' = FinallyFlags.isContentStreaming
    /\ pc' = [pc EXCEPT ![t] = "done"]
    /\ accumulatedThinking' = [accumulatedThinking EXCEPT ![t] = <<>>]
    /\ accumulatedContent' = [accumulatedContent EXCEPT ![t] = <<>>]
    /\ fullThinking' = [fullThinking EXCEPT ![t] = <<>>]
    /\ currentText' = [currentText EXCEPT ![t] = <<>>]
    /\ sentences' = [sentences EXCEPT ![t] = <<>>]
    /\ streamOpen' = [streamOpen EXCEPT ![t] = FALSE]
    /\ received' = [received EXCEPT ![t] = <<>>]
    /\ shownContent' = ShowContent(msgs, Live \ {t})
    /\ shownThinking' = ShowThinking(msgs, Live \ {t})
    /\ stale' = [stale EXCEPT ![t] = FALSE]
    /\ UNCHANGED nextTurn

StartTurnKeepError(text) ==
    LET t == nextTurn
        userMessage == [id |-> [kind |-> "user", n |-> t], role |-> "user", content |-> text]
        assistantMessage == [id |-> [kind |-> "assistant", n |-> t], role |-> "assistant",
                             content |-> <<>>, thinking |-> <<>>]
        msgs == addMessage(addMessage(messages, userMessage), assistantMessage)
    IN  /\ nextTurn <= MaxTurns
        /\ messages' = msgs
        /\ isStreaming' = TRUE
        /\ error' = error
        /\ isThinkingStreaming' = FALSE
        /\ isContentStreaming' = FALSE
        /\ nextTurn' = nextTurn + 1
        /\ pc' = [pc EXCEPT ![t] = "read"]
        /\ streamOpen' = [streamOpen EXCEPT ![t] = TRUE]
        /\ shownContent' = ShowContent(msgs, Live \cup {t})
        /\ shownThinking' = ShowThinking(msgs, Live \cup {t})
        /\ streamSettings' = [streamSettings EXCEPT ![t] = settings]
        /\ openedWith' = [openedWith EXCEPT ![t] = settingsObjects[settings]]
        /\ UNCHANGED <<accumulatedThinking, accumulatedContent, fullThinking, currentText,
                       sentences, nFrames, received, stale, settingsObjects, settings>>

\* ---------------------------------------------------------- turn start
\* handleSend up to the first read of the stream
StartTurn(text) ==
    LET t == nextTurn
        userMessage == [id |-> [kind |-> "user", n |-> t], role |-> "user", content |-> text]
        assistantMessage == [id |-> [kind |-> "assistant", n |-> t], role |-> "assistant",
                             content |-> <<>>, thinking |-> <<>>]
        msgs == addMessage(addMessage(messages, userMessage), assistantMessage)
    IN  /\ nextTurn <= MaxTurns
        /\ messages' = msgs
        /\ isStreaming' = TRUE
        /\ error' = NoError
        /\ isThinkingStreaming' = FALSE
        /\ isContentStreaming' = FALSE
        /\ nextTurn' = nextTurn + 1
        /\ pc' = [pc EXCEPT ![t] = "read"]
        /\ streamOpen' = [streamOpen EXCEPT ![t] = TRUE]
        /\ shownContent' = ShowContent(msgs, Live \cup {t})
        /\ shownThinking' = ShowThinking(msgs, Live \cup {t})
        /\ streamSettings' = [streamSettings EXCEPT ![t] = settings]
        /\ openedWith' = [openedWith EXCEPT ![t] = settingsObjects[settings]]
        /\ UNCHANGED <<accumulatedThinking, accumulatedContent, fullThinking, currentText,
                       sentences, nFrames, received, stale, settingsObjects, settings>>

\* MessageInput with disabled={isStreaming}: the user types a text and sends
\* it, which leaves the input empty
Send ==
    /\ ~isStreaming
    /\ \E text \in UserTexts : StartTurn(text)
    /\ UNCHANGED inputVars

\* the same, under the contract that no turn is in flight
SendContract ==
    /\ ~isStreaming
    /\ Live = {}
    /\ \E text \in UserTexts : StartTurn(text)
    /\ UNCHANGED inputVars

\* ------------------------------------------------------- the message input
IsSpace(c) == c = " "

\* String.prototype.trim
RECURSIVE TrimStart(_)
TrimStart(text) ==
    IF text # <<>> /\ IsSpace(Head(text)) THEN TrimStart(Tail(text)) ELSE text

RECURSIVE TrimEnd(_)
TrimEnd(text) ==
    IF text # <<>> /\ IsSpace(text[Len(text)])
    THEN TrimEnd(SubSeq(text, 1, Len(text) - 1)) ELSE text

Trim(text) == TrimEnd(TrimStart(text))

handleSendUntrimmed(typed, disabled) ==
    IF typed # <<>> /\ ~disabled
    THEN [sent |-> TRUE, text |-> typed, message |-> <<>>]
    ELSE [sent |-> FALSE, text |-> <<>>, message |-> typed]

\* MessageInput.handleSend: what it passes to onSend, and the typed text after
handleSend(typed, disabled) ==
    IF Trim(typed) # <<>> /\ ~disabled
    THEN [sent |-> TRUE, text |-> Trim(typed), message |-> <<>>]
    ELSE [sent |-> FALSE, text |-> <<>>, message |-> typed]

\* the textarea, disabled={disabled}
handleChange ==
    /\ ~isStreaming
    /\ \E value \in TypedTexts : inputMessage' = value
    /\ inputMessage' # inputMessage
    /\ UNCHANGED <<storeVars, pageVars, nextTurn, localVars, nFrames, historyVars,
                   settingsVars>>

\* the send button or the Enter key, with turns run one at a time
MessageInputSend ==
    /\ Live = {}
    /\ LET r == handleSend(inputMessage, isStreaming)
       IN  /\ r.sent
           /\ StartTurn(r.text)
           /\ inputMessage' = r.message

\* ------------------------------------------------------------- the loop
\* the stream yields chunk to the loop of turn t
Receive(t, chunk) ==
    /\ pc[t] = "read"
    /\ streamOpen[t]
    /\ nFrames < MaxFrames
    /\ LET rcv == IF chunk.type = "content"
                  THEN [received EXCEPT ![t] = @ \o chunk.chunk] ELSE received
       IN
       \/ /\ Branch(chunk) = "thinking"
          /\ LET segs == Sentences(chunk.thinking_content)
                 text == <<>> \o Head(segs)
                 msgs == updateLastMessage(messages, [thinking |-> text])
             IN  /\ isThinkingStreaming' = TRUE
                 /\ fullThinking' = [fullThinking EXCEPT ![t] = chunk.thinking_content]
                 /\ currentText' = [currentText EXCEPT ![t] = text]
                 /\ accumulatedThinking' = [accumulatedThinking EXCEPT ![t] = text]
                 /\ sentences' = [sentences EXCEPT ![t] = Tail(segs)]
                 /\ messages' = msgs
                 /\ pc' = [pc EXCEPT ![t] = "pace"]
                 /\ nFrames' = nFrames + 1
                 /\ received' = rcv
                 /\ shownContent' = ShowContent(msgs, Live)
                 /\ shownThinking' = ShowThinking(msgs, Live)
                 /\ UNCHANGED <<isStreaming, error, isContentStreaming, nextTurn,
                                accumulatedContent, streamOpen, stale>>
       \/ /\ Branch(chunk) = "content"
          /\ LET acc == AppendChunk(accumulatedContent[t], chunk.chunk)
                 msgs == updateLastMessage(messages, [content |-> acc])
             IN  /\ isThinkingStreaming' = FALSE
                 /\ isContentStreaming' = TRUE
                 /\ accumulatedContent' = [accumulatedContent EXCEPT ![t] = acc]
                 /\ messages' = msgs
                 /\ nFrames' = nFrames + 1
                 /\ received' = rcv
                 /\ shownContent' = ShowContent(msgs, Live)
                 /\ shownThinking' = ShowThinking(msgs, Live)
                 /\ UNCHANGED <<isStreaming, error, nextTurn, pc, accumulatedThinking,
                                fullThinking, currentText, sentences, streamOpen,
                                stale>>
       \/ /\ Branch(chunk) = "finish"
          /\ Finalize(t,
                      updateLastMessage(messages,
                          FinishUpdates(accumulatedContent[t], accumulatedThinking[t])),
                      error, 1)
       \/ /\ Branch(chunk) = "error"
          /\ Finalize(t, messages, Err(ErrorText(chunk.chunk)), 1)
       \/ /\ Branch(chunk) = "skip"
          /\ nFrames' = nFrames + 1
          /\ received' = rcv
          /\ UNCHANGED <<storeVars, pageVars, nextTurn, pc, accumulatedThinking,
                         accumulatedContent, fullThinking, currentText, sentences,
                         streamOpen, shownContent, shownThinking, stale>>

\* the 50 ms timer of the pacing loop fires: next sentence, or the code
\* after the loop
Pace(t) ==
    /\ pc[t] = "pace"
    /\ IF sentences[t] # <<>>
       THEN LET text == currentText[t] \o Head(sentences[t])
                msgs == updateLastMessage(messages, [thinking |-> text])
            IN  /\ currentText' = [currentText EXCEPT ![t] = text]
                /\ accumulatedThinking' = [accumulatedThinking EXCEPT ![t] = text]
                /\ sentences' = [sentences EXCEPT ![t] = Tail(@)]
                /\ messages' = msgs
                /\ shownContent' = ShowContent(msgs, Live)
                /\ shownThinking' = ShowThinking(msgs, Live)
                /\ UNCHANGED <<pc, fullThinking>>
       ELSE LET text == FinalThinking(fullThinking[t], currentText[t])
                msgs == updateLastMessage(messages, [thinking |-> text])
            IN  /\ accumulatedThinking' = [accumulatedThinking EXCEPT ![t] = text]
                /\ messages' = msgs
                /\ pc' = [pc EXCEPT ![t] = "read"]
                /\ fullThinking' = [fullThinking EXCEPT ![t] = <<>>]
                /\ currentText' = [currentText EXCEPT ![t] = <<>>]
                /\ shownContent' = ShowContent(msgs, Live)
                /\ shownThinking' = ShowThinking(msgs, Live)
                /\ UNCHANGED sentences
    /\ UNCHANGED <<isStreaming, error, pageVars, nextTurn, accumulatedContent,
                   streamOpen, nFrames, received, stale>>

\* the chunk sequence is over: the loop ends and the finally block runs
StreamEnd(t) ==
    /\ pc[t] = "read"
    /\ Finalize(t, messages, error, 0)

ThrowUncaught(t) ==
    /\ pc[t] = "read"
    /\ streamOpen[t]
    /\ Finalize(t, messages, error, 0)

\* reading the stream throws: catch, then finally
Throw(t) ==
    /\ pc[t] = "read"
    /\ streamOpen[t]
    /\ \E m \in ThrownMsgs : Finalize(t, messages, Err(m), 0)

\* the callback handleSend passes to streamChat
onError(m) ==
    /\ error' = Err(m)
    /\ isStreaming' = FALSE

\* the stream client meets a transport fault while the turn waits for a chunk
\* or for the pacing timer: it terminates the chunk sequence
StreamFault(t) ==
    /\ InFlight(t)
    /\ streamOpen[t]
    /\ streamOpen' = [streamOpen EXCEPT ![t] = FALSE]

\* the stream client reports the fault, once, through the callback
TransportError(t) ==
    /\ StreamFault(t)
    /\ \E m \in TransportMsgs : onError(m)
    /\ UNCHANGED <<messages, pageVars, nextTurn, pc, accumulatedThinking,
                   accumulatedContent, fullThinking, currentText, sentences, nFrames,
                   historyVars, settingsVars, inputVars>>

\* header button: onClick={clearMessages}, disabled while empty or streaming
Clear ==
    /\ Len(messages) # 0
    /\ ~isStreaming
    /\ messages' = <<>>
    /\ error' = NoError
    /\ stale' = [t \in Turns |-> stale[t] \/ InFlight(t)]
    /\ UNCHANGED <<isStreaming, pageVars, nextTurn, localVars, nFrames, received,
                   shownContent, shownThinking, settingsVars, inputVars>>

ClearContract ==
    /\ Live = {}
    /\ Clear

\* the settings panel: Save passes the edited copy, Reset passes the defaults
handleSave ==
    /\ Len(settingsObjects) <= MaxUpdates
    /\ \E localSettings \in LocalSettings :
          LET r == updateSettings(settingsObjects, settings, localSettings)
          IN  /\ settingsObjects' = r.objects
              /\ settings' = r.settings
    /\ UNCHANGED <<storeVars, pageVars, nextTurn, localVars, nFrames, historyVars,
                   streamSettings, openedWith, inputVars>>

handleReset ==
    /\ Len(settingsObjects) <= MaxUpdates
    /\ LET r == updateSettings(settingsObjects, settings, defaultSettings)
       IN  /\ settingsObjects' = r.objects
           /\ settings' = r.settings
    /\ UNCHANGED <<storeVars, pageVars, nextTurn, localVars, nFrames, historyVars,
                   streamSettings, openedWith, inputVars>>

\* a step of handleSend does not touch the store's settings nor the message
\* input, and the argument of streamChat goes when the call returns
KeepSettings(t) ==
    /\ IF pc'[t] = "done"
       THEN /\ streamSettings' = [streamSettings EXCEPT ![t] = NoSettings]
            /\ openedWith' = [openedWith EXCEPT ![t] = defaultSettings]
       ELSE UNCHANGED <<streamSettings, openedWith>>
    /\ UNCHANGED <<settingsObjects, settings, inputVars>>

\* a step of handleSend between two suspension points
TurnStep(t) ==
    \/ \E chunk \in Frames : Receive(t, chunk) /\ KeepSettings(t)
    \/ Pace(t) /\ KeepSettings(t)
    \/ StreamEnd(t) /\ KeepSettings(t)
    \/ Throw(t) /\ KeepSettings(t)

Next ==
    \/ Send
    \/ Clear
    \/ \E t \in Turns : TurnStep(t)
    \/ \E t \in Turns : TransportError(t)

Spec == Init /\ [][Next]_vars

NextContract ==
    \/ SendContract
    \/ ClearContract
    \/ \E t \in Turns : TurnStep(t)
    \/ \E t \in Turns : TransportError(t)

SpecContract == Init /\ [][NextContract]_vars

\* the same turns, with the settings panel in use
NextSettings ==
    \/ NextContract
    \/ handleSave
    \/ handleReset

SpecSettings == Init /\ [][NextSettings]_vars

\* the same turns, started through the message input
NextInput ==
    \/ handleChange
    \/ MessageInputSend
    \/ ClearContract
    \/ \E t \in Turns : TurnStep(t)
    \/ \E t \in Turns : TransportError(t)

SpecInput == Init /\ [][NextInput]_vars

TypeOK ==
    /\ isStreaming \in BOOLEAN
    /\ nextTurn \in 1..(MaxTurns + 1)
    /\ \A t \in Turns : pc[t] \in {"idle", "read", "pace", "done"}

\* every pending timer fires and every pending read of a stream returns
FairSpec == Spec /\ \A t \in Turns : WF_vars(TurnStep(t))

FairSpecContract == SpecContract /\ \A t \in Turns : WF_vars(TurnStep(t))

\* ------------------------------------------------------- steps, by kind
FinishStep(t) == \E chunk \in Frames : Branch(chunk) = "finish" /\ Receive(t, chunk)
ExhaustStep(t) == streamOpen[t] /\ StreamEnd(t)
ErrorFrameStep(t) == \E chunk \in Frames : chunk.type = "error" /\ Receive(t, chunk)
ThinkingStep(t) == \E chunk \in Frames : Branch(chunk) = "thinking" /\ Receive(t, chunk)
Finishing(t) == InFlight(t) /\ pc'[t] = "done"

ContentOf(msgs, t) == AssistantMessage(msgs, t).content
ThinkingOf(msgs, t) == AssistantMessage(msgs, t).thinking

\* ================================================================ claims

C3_WritesAreStrictPrefixChain ==
    [][\A t \in Turns :
        /\ ThinkingStep(t) => IsPrefix(accumulatedThinking'[t], fullThinking'[t])
        /\ Pace(t) =>
              /\ IsPrefix(accumulatedThinking'[t], fullThinking[t])
              /\ Len(accumulatedThinking[t]) < Len(accumulatedThinking'[t])
      ]_vars

\* C4: a frame of type error, whatever else it carries, puts its chunk text
\* into the error sink and ends the turn.
C4_ErrorFrameReachesSink ==
    [][\A t \in Turns : \A chunk \in Frames :
        (chunk.type = "error" /\ chunk.chunk # <<>> /\ Receive(t, chunk)) =>
           /\ error' = Err(chunk.chunk)
           /\ pc'[t] = "done"
      ]_vars

\* C5: a turn that ends by an error frame, by the transport error callback or
\* by a thrown exception keeps the messages as they were: nothing written is
\* cleared or rolled back.
ErrorEnding(t) ==
    \/ ErrorFrameStep(t)
    \/ Throw(t)
    \/ TransportError(t)
    \/ (~streamOpen[t] /\ StreamEnd(t))

C7_StaleTurnNeverWrites ==
    [][\A t \in Turns : (stale[t] /\ TurnStep(t)) => messages' = messages]_vars

\* C8: every started turn ends with the three flags false, and every pacing
\* loop ends.
C8_TurnTerminates ==
    \A t \in Turns :
        /\ InFlight(t) ~> (/\ pc[t] = "done"
                           /\ ~isStreaming
                           /\ ~isThinkingStreaming
                           /\ ~isContentStreaming)
        /\ (pc[t] = "pace") ~> (pc[t] # "pace")

C8_Witness ==
    /\ pc[1] = "done"
    /\ error = Err(<<"net">>)
    /\ HasAssistant(messages, 1)
    /\ ThinkingOf(messages, 1) = <<"a", ".", "b", "!">>
    /\ ~isStreaming /\ ~isThinkingStreaming /\ ~isContentStreaming

\* C9: every content and every thinking value the assistant message shows
\* during a turn is a prefix of the value it has when the turn ends.
C9_ShownIsPrefixOfFinal ==
    [][\A t \in Turns :
        (Finishing(t) /\ HasAssistant(messages', t)) =>
           /\ \A v \in shownContent[t] : IsPrefix(v, ContentOf(messages', t))
           /\ \A v \in shownThinking[t] : IsPrefix(v, ThinkingOf(messages', t))
      ]_vars

\* C10: a frame with done: true of any type ends the turn.
C10_DoneFrameFinishes ==
    [][\A t \in Turns : \A chunk \in Frames :
        (chunk.done /\ Receive(t, chunk)) => pc'[t] = "done"
      ]_vars

\* C11: starting a turn appends the user message carrying the submitted text
\* and then an empty assistant placeholder, sets the turn-active flag, clears
\* both channel flags and starts with empty accumulators, before any chunk of
\* the stream is read.
StartStep(t) == pc[t] = "idle" /\ pc'[t] # "idle"

C11_TurnStartAppendsTwoMessages ==
    [][\A t \in Turns :
        StartStep(t) =>
           /\ Len(messages') = Len(messages) + 2
           /\ SubSeq(messages', 1, Len(messages)) = messages
           /\ LET user == messages'[Len(messages) + 1]
                  assistant == messages'[Len(messages) + 2]
              IN  /\ user.role = "user"
                  /\ user.content \in UserTexts
                  /\ assistant.role = "assistant"
                  /\ assistant.content = <<>>
                  /\ assistant.thinking = <<>>
                  /\ assistant.id = [kind |-> "assistant", n |-> t]
           /\ isStreaming'
           /\ ~isThinkingStreaming' /\ ~isContentStreaming'
           /\ accumulatedThinking'[t] = <<>> /\ accumulatedContent'[t] = <<>>
           /\ pc'[t] = "read"
           /\ nFrames' = nFrames
      ]_vars

C11_Witness ==
    /\ pc[2] = "read"
    /\ nFrames = 0
    /\ Len(messages) = 4
    /\ messages[3].role = "user" /\ messages[3].content = <<"q">>
    /\ messages[4].role = "assistant"
    /\ messages[4].content = <<>> /\ messages[4].thinking = <<>>
    /\ isStreaming

\* C12: the settings a turn uses are those in force when it starts; saving or
\* resetting the settings while the turn is in flight does not change the
\* settings its stream was opened with.
C12_SettingsFixedAtTurnStart ==
    \A t \in Turns :
        InFlight(t) =>
           /\ streamSettings[t] \in 1..Len(settingsObjects)
           /\ settingsObjects[streamSettings[t]] = openedWith[t]

C12_Witness ==
    /\ InFlight(1)
    /\ nFrames = 1
    /\ settings # streamSettings[1]
    /\ settingsObjects[settings] # openedWith[1]
    /\ settingsObjects[streamSettings[1]] = openedWith[1]

\* C13: the transport error callback is equivalent to an error frame: the
\* error sink receives the message and the turn is finalized at once, that is
\* the turn-active flag and both channel flags are false and the turn
\* processes nothing further.
C13_TransportErrorFinalizes ==
    [][\A t \in Turns :
        TransportError(t) =>
           /\ \E m \in TransportMsgs : error' = Err(m)
           /\ ~isStreaming'
           /\ ~isThinkingStreaming' /\ ~isContentStreaming'
           /\ pc'[t] = "done"
      ]_vars

\* C14: at most one turn is active at any time: while a turn has started and
\* has not reached its terminal state, sending is disabled.
C14_AtMostOneTurnActive ==
    /\ Cardinality(Live) <= 1
    /\ \A t \in Turns : InFlight(t) => isStreaming

\* C15: at most one of the two channel flags is true in every reachable
\* state, and after a thinking or content frame the flag that is true is the
\* one of that frame's channel, also when thinking follows content.
C15_OneChannelFlag ==
    [][/\ ~(isThinkingStreaming' /\ isContentStreaming')
       /\ \A t \in Turns : \A chunk \in Frames :
             (Receive(t, chunk) /\ pc'[t] # "done") =>
                /\ Branch(chunk) = "thinking" =>
                      isThinkingStreaming' /\ ~isContentStreaming'
                /\ Branch(chunk) = "content" =>
                      isContentStreaming' /\ ~isThinkingStreaming'
      ]_vars

\* C16: between clears the store is append-only except for its last element:
\* starting a turn adds elements at the end and leaves the others as they are,
\* and a write of the loop changes only the given fields of the last element,
\* never the length or another element; only a clear removes elements.
ContentStep(t) == \E chunk \in Frames : Branch(chunk) = "content" /\ Receive(t, chunk)

C16_StoreAppendOnly ==
    [][LET n == Len(messages)
       IN  /\ \A t \in Turns :
                StartStep(t) =>
                   /\ Len(messages') > n
                   /\ SubSeq(messages', 1, n) = messages
           /\ \A t \in Turns :
                TurnStep(t) =>
                   /\ Len(messages') = n
                   /\ \A i \in 1..(n - 1) : messages'[i] = messages[i]
                   /\ n >= 1 =>
                        /\ DOMAIN messages'[n] = DOMAIN messages[n]
                        /\ \A f \in DOMAIN messages[n] \ {"content", "thinking"} :
                              messages'[n][f] = messages[n][f]
                        /\ (Pace(t) \/ ThinkingStep(t)) =>
                              messages'[n].content = messages[n].content
                        /\ ContentStep(t) =>
                              messages'[n].thinking = messages[n].thinking
           /\ Len(messages') < n => messages' = <<>> /\ ~isStreaming
      ]_vars

C16_Witness ==
    /\ Len(messages) = 4
    /\ pc[2] = "read"
    /\ messages[2].content = <<"a">>
    /\ messages[4].content = <<"b">>
    /\ messages[4].thinking = <<>>

\* C17: an update of the last message on an empty store leaves the store
\* empty and is reported to the caller as a logic error: the calling turn
\* ends with the error in the error sink, the update does not pass silently.
UpdateStep(t) == Pace(t) \/ ContentStep(t) \/ FinishStep(t)

C17_EmptyStoreUpdateIsReported ==
    [][\A t \in Turns :
        (messages = <<>> /\ UpdateStep(t)) =>
           /\ messages' = <<>>
           /\ error'.set
           /\ pc'[t] = "done"
      ]_vars

\* C18: within one turn the lengths of the thinking accumulator and of the
\* content accumulator never decrease from one step to the next until the
\* turn ends, also when the turn receives two or more thinking frames.
C18_AccumulatorsNeverShrink ==
    [][\A t \in Turns :
        (InFlight(t) /\ pc'[t] \in {"read", "pace"}) =>
           /\ Len(accumulatedThinking'[t]) >= Len(accumulatedThinking[t])
           /\ Len(accumulatedContent'[t]) >= Len(accumulatedContent[t])
      ]_vars

\* C19: once a turn has reached its terminal state (by finish, error,
\* exhaustion, or the transport error callback having set the turn-active
\* flag to false), the turn makes no further pacing delay and no further
\* store write: its assistant message does not change again.
Terminated(t) == pc[t] = "done" \/ (InFlight(t) /\ ~streamOpen[t])

C19_NoWriteAfterTerminal ==
    [][\A t \in Turns :
        (Terminated(t) /\ TurnStep(t)) =>
           /\ ~Pace(t)
           /\ messages' = messages
      ]_vars

\* C20: in a turn that is not interfered with, whenever a frame has been
\* fully processed the content of the assistant message equals the content
\* accumulator and its thinking equals the thinking accumulator, so the final
\* write of a finish frame would leave the store as it is.
C20_StoreEqualsAccumulators ==
    \A t \in Turns :
        pc[t] = "read" =>
           /\ HasAssistant(messages, t)
           /\ ContentOf(messages, t) = accumulatedContent[t]
           /\ ThinkingOf(messages, t) = accumulatedThinking[t]
           /\ updateLastMessage(messages,
                 FinishUpdates(accumulatedContent[t], accumulatedThinking[t])) = messages

C20_Witness ==
    /\ pc[1] = "read"
    /\ nFrames = 2
    /\ accumulatedContent[1] = <<"b">>
    /\ accumulatedThinking[1] = <<"a", ".", "b", "!">>
    /\ ContentOf(messages, 1) = <<"b">>
    /\ ThinkingOf(messages, 1) = <<"a", ".", "b", "!">>

C22_TurnWritesOwnMessageOnly ==
    [][\A t \in Turns :
        TurnStep(t) =>
           \A i \in 1..Len(messages) :
              messages[i].id.n # t =>
                 /\ i <= Len(messages')
                 /\ messages'[i] = messages[i]
      ]_vars

\* C23: the engine never blocks one channel on the other: while a thinking
\* frame is being revealed with pacing delays, the turn can take a content
\* frame from its open stream and write it, without waiting for the remaining
\* thinking segments.
ContentReceive(t) ==
    \E chunk \in Frames :
        Branch(chunk) = "content" /\ Receive(t, chunk) /\ KeepSettings(t)

C23_ContentNotBlockedByPacing ==
    \A t \in Turns :
        (pc[t] = "pace" /\ streamOpen[t] /\ nFrames < MaxFrames) =>
           ENABLED ContentReceive(t)

\* C24: an exception thrown while the stream is opened or iterated is caught
\* inside the turn: the error sink receives the exception's message or
\* "Failed to send message", and handleSend returns with the turn-active flag
\* and both channel flags false.
C24_ExceptionIsCaught ==
    [][\A t \in Turns :
        Throw(t) =>
           /\ \E m \in ThrownMsgs : error' = Err(m)
           /\ pc'[t] = "done"
           /\ ~isStreaming'
           /\ ~isThinkingStreaming' /\ ~isContentStreaming'
           /\ messages' = messages
      ]_vars

C24_Witness ==
    /\ pc[1] = "done"
    /\ error = Err(FailedToSend)
    /\ ~isStreaming /\ ~isThinkingStreaming /\ ~isContentStreaming
    /\ HasAssistant(messages, 1)
    /\ ContentOf(messages, 1) = <<"a">>
    /\ ThinkingOf(messages, 1) = <<"a", ".">>

\* C25: each turn opens exactly one stream: a stream is opened only by the
\* step that starts a fresh turn, a turn is started once, and after an error
\* frame, a transport error or an exception the turn stays ended, it does not
\* reopen the stream or retry.
C25_OneStreamPerTurn ==
    [][\A t \in Turns :
        /\ (streamOpen'[t] /\ ~streamOpen[t]) => (StartStep(t) /\ nextTurn = t)
        /\ pc[t] # "idle" => pc'[t] # "idle"
        /\ pc[t] = "done" => (pc'[t] = "done" /\ ~streamOpen'[t])
        /\ nextTurn' >= nextTurn
      ]_vars

C25_Witness ==
    /\ pc[1] = "done" /\ pc[2] = "done"
    /\ ~streamOpen[1] /\ ~streamOpen[2]
    /\ error = Err(<<"net">>)
    /\ Len(messages) = 4
    /\ ContentOf(messages, 1) = <<"a">>

\* C26: a frame that is not a recognised event (unknown type, thinking with
\* empty text, content with an empty chunk) and does not carry done: true is
\* skipped: it changes neither the accumulators, the store, the channel flags
\* nor the error sink, and the turn goes on reading.
Unrecognised(chunk) ==
    /\ ~chunk.done
    /\ \/ chunk.type \notin {"thinking", "content", "finish", "error"}
       \/ chunk.type = "thinking" /\ chunk.thinking_content = <<>>
       \/ chunk.type = "content" /\ chunk.chunk = <<>>

C26_UnrecognisedFrameSkipped ==
    [][\A t \in Turns : \A chunk \in Frames :
        (Unrecognised(chunk) /\ Receive(t, chunk)) =>
           /\ messages' = messages
           /\ error' = error
           /\ isStreaming' = isStreaming
           /\ isThinkingStreaming' = isThinkingStreaming
           /\ isContentStreaming' = isContentStreaming
           /\ accumulatedThinking'[t] = accumulatedThinking[t]
           /\ accumulatedContent'[t] = accumulatedContent[t]
           /\ pc'[t] = "read"
           /\ streamOpen'[t]
      ]_vars

C26_Witness ==
    /\ pc[1] = "read"
    /\ nFrames = 2
    /\ streamOpen[1]
    /\ isContentStreaming /\ ~isThinkingStreaming
    /\ ~error.set
    /\ accumulatedContent[1] = <<"a">>
    /\ accumulatedThinking[1] = <<>>
    /\ ContentOf(messages, 1) = <<"a">>

\* C27: in every reachable state the messages of the store alternate roles
\* starting with user: the length is even, every odd position (counting from
\* 1) holds a user message and every even position an assistant message.
C27_RolesAlternate ==
    /\ Len(messages) % 2 = 0
    /\ \A i \in 1..Len(messages) :
          messages[i].role = IF i % 2 = 1 THEN "user" ELSE "assistant"

C27_Witness ==
    /\ Len(messages) = 2
    /\ messages[1].id.n = 2
    /\ messages[1].role = "user"
    /\ messages[2].role = "assistant"
    /\ messages[2].content = <<"a">>

\* C28: in every reachable state a channel flag is true only while the turn
\* is active: isThinkingStreaming or isContentStreaming implies isStreaming.
C28_ChannelFlagImpliesStreaming ==
    (isThinkingStreaming \/ isContentStreaming) => isStreaming

\* C29: the error sink is reset when a turn starts, and a turn that ends by a
\* finish frame or by exhaustion of its open stream, with no error frame,
\* transport error or exception during it, ends with the error sink null,
\* whatever error an earlier turn left behind.
C29_CleanFinishLeavesNoError ==
    [][\A t \in Turns :
        /\ StartStep(t) => error' = NoError
        /\ (FinishStep(t) \/ ExhaustStep(t)) => (error = NoError /\ error' = NoError)
      ]_vars

C29_Witness ==
    /\ pc[1] = "done" /\ pc[2] = "done"
    /\ nFrames = 2
    /\ error = NoError
    /\ HasAssistant(messages, 1) /\ HasAssistant(messages, 2)
    /\ ContentOf(messages, 1) = <<>>
    /\ ThinkingOf(messages, 1) = <<"a", ".", "b", "!">>
    /\ ContentOf(messages, 2) = <<"b">>

\* C30: the message input starts a turn only with non-blank text and only
\* when it is not disabled: its send handler passes the trimmed text to onSend
\* when the trimmed text is non-empty and disabled is false, and otherwise
\* sends nothing and keeps the typed text; so every user message of the store
\* has a non-empty content without blanks at its ends.
C30_InputSendsTrimmedNonBlank ==
    /\ \A typed \in TypedTexts \cup {inputMessage} : \A disabled \in BOOLEAN :
          LET r == handleSend(typed, disabled)
          IN  /\ r.sent <=> (\E i \in 1..Len(typed) : ~IsSpace(typed[i])) /\ ~disabled
              /\ r.sent => r.text = Trim(typed)
              /\ ~r.sent => r.message = typed
    /\ \A i \in 1..Len(messages) :
          messages[i].role = "user" =>
             /\ messages[i].content # <<>>
             /\ ~IsSpace(Head(messages[i].content))
             /\ ~IsSpace(messages[i].content[Len(messages[i].content)])

C30_Witness ==
    /\ inputMessage = <<" ">>
    /\ Len(messages) = 4
    /\ messages[1].content = <<"q">>
    /\ messages[3].content = <<"q">>
    /\ ~isStreaming
    /\ nextTurn = 3

====
